---- MODULE Spec2Model ----
(***************************************************************************)
(* Model of the UPM exporter: collector.py (collect_data, container id     *)
(* extraction, memoized metadata resolution, top-N aggregation) and        *)
(* exporter.py (label projection, gauge registry, /metrics handler, the    *)
(* serving loop and its shutdown flag).                                    *)
(*                                                                         *)
(* Python strings are sequences of one-character strings, so that strip,   *)
(* slicing, int(), float() and the regular expressions are computed on the *)
(* text. Python floats are carried in tenths (float("9.5") is 95): every   *)
(* text the model draws has at most one fractional digit, and the sort     *)
(* keys are scaled by positive constants, which keeps their order.         *)
(***************************************************************************)
EXTENDS Integers, Sequences, FiniteSets, TLC

(***************************************************************************)
(* Bounds of the model.                                                    *)
(***************************************************************************)
\* TOP_N of collector.py:26 (environment TOP_N, default 50), scaled down.
TOP_N == 2
\* maxsize of the lru_cache of collector.py:160 (2048), scaled down.
maxsize == 2
\* number of /metrics scrapes the model follows (the histogram's count).
MaxScrapes == 2

(***************************************************************************)
(* Text helpers (Python str, int, float).                                  *)
(***************************************************************************)
Min(a, b) == IF a < b THEN a ELSE b

WS == {" "}
DIGITS == {"0", "1", "2", "3", "4", "5", "6", "7", "8", "9"}
HEX == DIGITS \cup {"a", "b", "c", "d", "e", "f"}

DigitVal(c) ==
    CASE c = "0" -> 0 [] c = "1" -> 1 [] c = "2" -> 2 [] c = "3" -> 3
      [] c = "4" -> 4 [] c = "5" -> 5 [] c = "6" -> 6 [] c = "7" -> 7
      [] c = "8" -> 8 [] c = "9" -> 9

DigitChar(d) ==
    CASE d = 0 -> "0" [] d = 1 -> "1" [] d = 2 -> "2" [] d = 3 -> "3"
      [] d = 4 -> "4" [] d = 5 -> "5" [] d = 6 -> "6" [] d = 7 -> "7"
      [] d = 8 -> "8" [] d = 9 -> "9"

RECURSIVE lstrip(_)
lstrip(s) == IF s # <<>> /\ Head(s) \in WS THEN lstrip(Tail(s)) ELSE s

RECURSIVE rstrip(_)
rstrip(s) ==
    IF s # <<>> /\ s[Len(s)] \in WS THEN rstrip(SubSeq(s, 1, Len(s) - 1)) ELSE s

\* str.strip()
strip(s) == rstrip(lstrip(s))

\* s[:n]
Slice(s, n) == SubSeq(s, 1, Min(n, Len(s)))

\* s.startswith(prefix)
startswith(s, prefix) ==
    Len(s) >= Len(prefix) /\ SubSeq(s, 1, Len(prefix)) = prefix

AllDigits(s) == s # <<>> /\ \A i \in 1..Len(s) : s[i] \in DIGITS

RECURSIVE DigitsVal(_)
DigitsVal(s) ==
    IF s = <<>> THEN 0 ELSE 10 * DigitsVal(SubSeq(s, 1, Len(s) - 1)) + DigitVal(s[Len(s)])

Unsigned(s) == IF s # <<>> /\ Head(s) \in {"+", "-"} THEN Tail(s) ELSE s
Sign(s) == IF s # <<>> /\ Head(s) = "-" THEN -1 ELSE 1

\* int(s) succeeds: optional surrounding blanks, optional sign, decimal digits
int_ok(s) == AllDigits(Unsigned(strip(s)))
int_val(s) == Sign(strip(s)) * DigitsVal(Unsigned(strip(s)))

\* str(n) of an integer
RECURSIVE NatStr(_)
NatStr(n) == IF n < 10 THEN <<DigitChar(n)>> ELSE NatStr(n \div 10) \o <<DigitChar(n % 10)>>
str(n) == IF n < 0 THEN <<"-">> \o NatStr(-n) ELSE NatStr(n)

\* position of the decimal point of s, 0 when there is none
DotPos(s) == IF \E i \in 1..Len(s) : s[i] = "."
             THEN CHOOSE i \in 1..Len(s) : s[i] = "." /\ \A j \in 1..(i - 1) : s[j] # "."
             ELSE 0
IntPart(s) == IF DotPos(s) = 0 THEN s ELSE SubSeq(s, 1, DotPos(s) - 1)
FracPart(s) == IF DotPos(s) = 0 THEN <<>> ELSE SubSeq(s, DotPos(s) + 1, Len(s))

\* float(s) succeeds: blanks, sign, digits with an optional decimal point
\* (exponents, inf and nan are outside the alphabet the model draws from)
float_ok(s) ==
    LET u == Unsigned(strip(s)) IN
    /\ (IntPart(u) # <<>> \/ FracPart(u) # <<>>)
    /\ (IntPart(u) = <<>> \/ AllDigits(IntPart(u)))
    /\ (FracPart(u) = <<>> \/ AllDigits(FracPart(u)))
\* float(s), in tenths
float_val(s) ==
    LET u == Unsigned(strip(s)) IN
    Sign(strip(s)) * (10 * DigitsVal(IntPart(u))
                      + (IF FracPart(u) = <<>> THEN 0 ELSE DigitVal(FracPart(u)[1])))

\* the length of the longest run of characters of class cls starting at position i
RECURSIVE Run(_, _, _)
Run(s, i, cls) == IF i <= Len(s) /\ s[i] \in cls THEN 1 + Run(s, i + 1, cls) ELSE 0

(***************************************************************************)
(* Container id extraction (collector.py: _CONTAINER_PATTERNS,             *)
(* extract_container_id). A search result is NoMatch or [ok, group].       *)
(***************************************************************************)
NoMatch == [ok |-> FALSE, group |-> <<>>]
Match(g) == [ok |-> TRUE, group |-> g]

MinOf(S) == CHOOSE x \in S : \A y \in S : x <= y
MaxOf(S) == CHOOSE x \in S : \A y \in S : y <= x

\* the length of the longest run of characters outside excl starting at position i
RECURSIVE RunNot(_, _, _)
RunNot(s, i, excl) == IF i <= Len(s) /\ s[i] \notin excl THEN 1 + RunNot(s, i + 1, excl) ELSE 0

\* the group of a match whose group starts at position i and is n long; NoMatch for i = 0
GroupAt(s, i, n) == IF i = 0 THEN NoMatch ELSE Match(SubSeq(s, i, i + n - 1))

\* the leftmost position where lit is followed by at least lo characters of HEX,
\* as the position after lit; 0 when there is none
HexStart(s, lit, lo) ==
    IF \E i \in 1..(Len(s) - Len(lit) + 1) :
          SubSeq(s, i, i + Len(lit) - 1) = lit /\ Run(s, i + Len(lit), HEX) >= lo
    THEN Len(lit) + MinOf({i \in 1..(Len(s) - Len(lit) + 1) :
                              SubSeq(s, i, i + Len(lit) - 1) = lit
                              /\ Run(s, i + Len(lit), HEX) >= lo})
    ELSE 0

HexGroup(s, start, hi) ==
    GroupAt(s, start, IF hi > 0 THEN Min(Run(s, start, HEX), hi) ELSE Run(s, start, HEX))

\* re.compile(lit + '([a-f0-9]{lo,hi})').search(s); hi = 0 stands for no upper limit
SearchHex(s, lit, lo, hi) == HexGroup(s, HexStart(s, lit, lo), hi)

L_lxc_slash == <<"l", "x", "c", "/">>

LxcStart(s) ==
    IF \E i \in 1..(Len(s) - 3) : SubSeq(s, i, i + 3) = L_lxc_slash /\ RunNot(s, i + 4, {"/"}) >= 1
    THEN 4 + MinOf({i \in 1..(Len(s) - 3) :
                       SubSeq(s, i, i + 3) = L_lxc_slash /\ RunNot(s, i + 4, {"/"}) >= 1})
    ELSE 0

\* re.compile(r'lxc/([^/]+)').search(s)
SearchLxc(s) == GroupAt(s, LxcStart(s), RunNot(s, LxcStart(s), {"/"}))

L_kubepods_slash == <<"k", "u", "b", "e", "p", "o", "d", "s", "/">>
L_slash_pod == <<"/", "p", "o", "d">>

\* re.compile(r'kubepods/[^\s]+/pod[^\s]+/([a-f0-9]{12,})').search(s), for a match
\* that starts at position i: stretch is the last position of the run without white
\* space from i on; KubeBs are the positions of a "/" that can precede the group
\* when "/pod" is at a, KubeAs the positions of a usable "/pod".
KubeBs(s, stretch, a) ==
    {b \in (a + 5)..stretch : s[b] = "/" /\ Run(s, b + 1, HEX) >= 12}
KubeAs(s, i, stretch) ==
    {a \in (i + 10)..(stretch - 3) :
        SubSeq(s, a, a + 3) = L_slash_pod /\ KubeBs(s, stretch, a) # {}}
KubeHits(s) ==
    {i \in 1..(Len(s) - 8) :
        SubSeq(s, i, i + 8) = L_kubepods_slash
        /\ KubeAs(s, i, i + RunNot(s, i, WS) - 1) # {}}
\* both [^\s]+ are greedy: the latest "/pod", then the latest "/", that still leave
\* twelve hex characters
KubeGroupStart(s, i, stretch) ==
    1 + MaxOf(KubeBs(s, stretch, MaxOf(KubeAs(s, i, stretch))))
KubeStart(s, hits) ==
    IF hits = {} THEN 0
    ELSE KubeGroupStart(s, MinOf(hits), MinOf(hits) + RunNot(s, MinOf(hits), WS) - 1)
KubeGroup(s, start) == GroupAt(s, start, Run(s, start, HEX))
SearchKubepods(s) == KubeGroup(s, KubeStart(s, KubeHits(s)))

L_docker_slash == <<"d", "o", "c", "k", "e", "r", "/">>
L_docker_dash == <<"d", "o", "c", "k", "e", "r", "-">>
L_cri == <<"c", "r", "i", "-", "c", "o", "n", "t", "a", "i", "n", "e", "r", "d", "-">>
L_libpod == <<"l", "i", "b", "p", "o", "d", "-">>

\* the runtime tags, as the collector writes them
T_host == <<"h", "o", "s", "t">>
T_docker == <<"d", "o", "c", "k", "e", "r">>
T_containerd == <<"c", "o", "n", "t", "a", "i", "n", "e", "r", "d">>
T_kubernetes == <<"k", "u", "b", "e", "r", "n", "e", "t", "e", "s">>
T_podman == <<"p", "o", "d", "m", "a", "n">>
T_lxc == <<"l", "x", "c">>

\* _CONTAINER_PATTERNS.get(runtime), each pattern applied to the path
_CONTAINER_PATTERNS(runtime, s) ==
    CASE runtime = T_docker ->
           <<SearchHex(s, L_docker_slash, 12, 64), SearchHex(s, L_docker_dash, 12, 0)>>
      [] runtime = T_containerd -> <<SearchHex(s, L_cri, 12, 0)>>
      [] runtime = T_kubernetes ->
           <<SearchHex(s, L_cri, 12, 0), SearchHex(s, L_docker_dash, 12, 0), SearchKubepods(s)>>
      [] runtime = T_podman -> <<SearchHex(s, L_libpod, 12, 0)>>
      [] runtime = T_lxc -> <<SearchLxc(s)>>
      [] OTHER -> <<>>

\* a first group that is returned whole
FirstGroup(ms) ==
    IF \A i \in 1..Len(ms) : ~ms[i].ok THEN <<>>
    ELSE ms[MinOf({i \in 1..Len(ms) : ms[i].ok})].group

\* the group of the first pattern of the list that matched, cut to 12 characters
FirstGroup12(ms) ==
    IF \A i \in 1..Len(ms) : ~ms[i].ok THEN <<>>
    ELSE Slice(ms[MinOf({i \in 1..Len(ms) : ms[i].ok})].group, 12)

extract_container_id(cgroup_path, runtime) ==
    FirstGroup12(_CONTAINER_PATTERNS(runtime, cgroup_path))

(***************************************************************************)
(* Metadata resolution (collector.py: resolve_container_metadata and its   *)
(* lru_cache, _docker_metadata, _podman_metadata).                         *)
(*                                                                         *)
(* What the host answers to a lookup is the scrape's environment:          *)
(*   docker: "found" (a state directory with a readable config.v2.json),   *)
(*           "nomatch", "oserror" (listdir/open fails), "jsonerror";       *)
(*   podman: "ok", "nonzero" exit, "timeout" (TimeoutExpired), "badjson",  *)
(*           "emptylist" ([]), "notalist" (JSON null or a number),         *)
(*           "missing" (no podman binary: FileNotFoundError), "oddname"    *)
(*           (a list whose first element has a number for its Name).       *)
(***************************************************************************)
DockerOutcomes == {"found", "nomatch", "oserror", "jsonerror"}
PodmanOutcomes ==
    {"ok", "nonzero", "timeout", "badjson", "emptylist", "notalist", "missing", "oddname"}

\* the Name of config.v2.json and of podman inspect's first element
DockerName == <<"/", "w", "e", "b">>
PodmanName == <<"d", "b">>
\* a Name that json.loads gives as a number, not as a str
NotText == <<"(number)">>

EmptyDict == [k \in {} |-> <<>>]
Returned(v) == [raised |-> FALSE, value |-> v]
Raised == [raised |-> TRUE, value |-> EmptyDict]

\* str.lstrip('/')
RECURSIVE lstrip_slash(_)
lstrip_slash(s) == IF s # <<>> /\ Head(s) = "/" THEN lstrip_slash(Tail(s)) ELSE s

\* OSError and JSONDecodeError are caught; the loop falls through to return {}
_docker_metadata(cid, env) ==
    IF env.docker = "found"
    THEN Returned([container_name |-> lstrip_slash(DockerName)])
    ELSE Returned(EmptyDict)

\* SubprocessError, JSONDecodeError, IndexError and KeyError are caught; the
\* FileNotFoundError of a missing binary and the TypeError of json.loads(..)[0] on a
\* value that cannot be indexed are not.
_podman_metadata(cid, env) ==
    CASE env.podman = "ok" -> Returned([container_name |-> PodmanName])
      [] env.podman = "oddname" -> Returned([container_name |-> NotText])
      [] env.podman \in {"nonzero", "timeout", "badjson", "emptylist"} -> Returned(EmptyDict)
      [] env.podman \in {"missing", "notalist"} -> Raised

\* the body of resolve_container_metadata, under the decorator
resolve_body(container_id, runtime, env) ==
    IF container_id = <<>> \/ runtime = T_host
    THEN Returned([container_name |-> <<>>, pod_name |-> <<>>, namespace |-> <<>>])
    ELSE CASE runtime = T_docker -> _docker_metadata(container_id, env)
           [] runtime = T_podman -> _podman_metadata(container_id, env)
           [] runtime = T_lxc ->
                Returned([container_name |-> container_id, pod_name |-> <<>>, namespace |-> <<>>])
           [] OTHER -> Returned(EmptyDict)

\* does the body run the docker directory scan or podman inspect for this key
IsLookup(container_id, runtime) ==
    container_id # <<>> /\ runtime \in {T_docker, T_podman}

\* The cache is a sequence of [key, value], least recently used first.
CacheIndex(cache, key) ==
    IF \E i \in 1..Len(cache) : cache[i].key = key
    THEN CHOOSE i \in 1..Len(cache) : cache[i].key = key
    ELSE 0

Without(seq, i) == SubSeq(seq, 1, i - 1) \o SubSeq(seq, i + 1, Len(seq))

\* a miss of the cache: the body r has run; its result is stored unless it raised,
\* in place of the least recently used entry when the cache is full
CacheMiss(c, key, r, looked) ==
    [raised |-> r.raised, value |-> r.value, looked |-> looked,
     cache |-> IF r.raised THEN c
               ELSE Append(IF Len(c) >= maxsize THEN Tail(c) ELSE c,
                           [key |-> key, value |-> r.value])]

\* a hit: the stored value, and the key becomes the most recently used
CacheHit(c, i) ==
    [raised |-> FALSE, value |-> c[i].value, looked |-> FALSE,
     cache |-> Append(Without(c, i), c[i])]

\* @lru_cache(maxsize=2048) def resolve_container_metadata(container_id, runtime)
resolve_container_metadata(c, container_id, runtime, env) ==
    IF CacheIndex(c, <<container_id, runtime>>) > 0
    THEN CacheHit(c, CacheIndex(c, <<container_id, runtime>>))
    ELSE CacheMiss(c, <<container_id, runtime>>, resolve_body(container_id, runtime, env),
                   IsLookup(container_id, runtime))

(***************************************************************************)
(* collect_data (collector.py). The collector's standard output is a       *)
(* sequence of lines, a line the sequence of its tab-separated fields.     *)
(***************************************************************************)
None == <<"None">>
_CACHED_HOSTNAME == <<"n">>

AllBlank(s) == strip(s) = <<>>

\* line.strip() on the fields of a line: tabs are white space too, so blank fields at
\* either end go with their tabs, and a line of blank fields only is empty
RECURSIVE StripLead(_)
StripLead(fields) ==
    IF fields = <<>> THEN <<>>
    ELSE IF AllBlank(Head(fields)) THEN StripLead(Tail(fields))
    ELSE <<lstrip(Head(fields))>> \o Tail(fields)

RECURSIVE StripTrail(_)
StripTrail(fields) ==
    IF fields = <<>> THEN <<>>
    ELSE LET n == Len(fields) IN
         IF AllBlank(fields[n]) THEN StripTrail(SubSeq(fields, 1, n - 1))
         ELSE SubSeq(fields, 1, n - 1) \o <<rstrip(fields[n])>>

\* line.strip().split('\t'); <<>> stands for the empty line
StripLine(fields) == StripTrail(StripLead(fields))

\* no int() or float() of the constructor call raises ValueError
ParseOk(parts) ==
    /\ int_ok(parts[1]) /\ float_ok(parts[3]) /\ float_ok(parts[4])
    /\ int_ok(parts[5]) /\ int_ok(parts[8]) /\ int_ok(parts[9]) /\ int_ok(parts[6])

\* a constructor call that takes the runtime from the field before it
ProcessMetric_shifted(parts) ==
    [pid |-> int_val(parts[1]), user |-> strip(parts[2]), command |-> strip(parts[7]),
     cpu_pct |-> float_val(parts[3]), mem_pct |-> float_val(parts[4]),
     mem_rss_kb |-> int_val(parts[5]), disk_read_bytes |-> int_val(parts[8]),
     disk_write_bytes |-> int_val(parts[9]),
     ports |-> IF strip(parts[10]) = <<>> THEN None ELSE strip(parts[10]),
     cgroup_path |-> Slice(strip(parts[11]), 500), uptime_sec |-> int_val(parts[6]),
     cgroup_version |-> strip(parts[12]), runtime |-> strip(parts[12]),
     container_id |-> <<>>, container_name |-> <<>>, pod_name |-> <<>>,
     namespace |-> <<>>, rank |-> 0, node_name |-> _CACHED_HOSTNAME]

\* ProcessMetric(...) of parts[:13]: pid, user, pcpu, pmem, rss, etimes, comm,
\* disk_read, disk_write, ports, cgroup_path, cgroup_version, runtime
ProcessMetric(parts) ==
    [pid |-> int_val(parts[1]),
     user |-> strip(parts[2]),
     command |-> strip(parts[7]),
     cpu_pct |-> float_val(parts[3]),
     mem_pct |-> float_val(parts[4]),
     mem_rss_kb |-> int_val(parts[5]),
     disk_read_bytes |-> int_val(parts[8]),
     disk_write_bytes |-> int_val(parts[9]),
     ports |-> IF strip(parts[10]) = <<>> THEN None ELSE strip(parts[10]),
     cgroup_path |-> Slice(strip(parts[11]), 500),
     uptime_sec |-> int_val(parts[6]),
     cgroup_version |-> strip(parts[12]),
     runtime |-> strip(parts[13]),
     container_id |-> <<>>,
     container_name |-> <<>>,
     pod_name |-> <<>>,
     namespace |-> <<>>,
     rank |-> 0,
     node_name |-> _CACHED_HOSTNAME]

\* the indices of keys, largest key first, equal keys in their original order
\* (sorted(..., reverse=True) is stable)
RECURSIVE OrderDesc(_, _)
OrderDesc(keys, remaining) ==
    IF remaining = {} THEN <<>>
    ELSE LET i == CHOOSE x \in remaining :
                    \A y \in remaining : keys[x] > keys[y] \/ (keys[x] = keys[y] /\ x <= y)
         IN <<i>> \o OrderDesc(keys, remaining \ {i})

\* sorted(range(len(keys)), key=keys.__getitem__, reverse=True)
sorted_desc(keys) == OrderDesc(keys, 1..Len(keys))

\* The loop over the lines; acc is [processes, cache, called, looked, raised]: called
\* the keys resolve_container_metadata was called with, looked the keys whose docker
\* or podman lookup was run, raised an exception leaving the loop.

\* the filter of kernel threads and zombies, and processes.append(pm)
collect_filter(acc, pm) ==
    IF startswith(pm.command, <<"[">>) \/ pm.pid = 0 THEN acc
    ELSE [acc EXCEPT !.processes = Append(@, pm)]

\* for k, v in metadata.items(): setattr(pm, k, v)
SetAttrs(pm, metadata) ==
    [f \in DOMAIN pm |-> IF f \in DOMAIN metadata THEN metadata[f] ELSE pm[f]]

\* metadata = resolve_container_metadata(pm.container_id, pm.runtime), r its outcome
collect_resolved(acc, pm, r) ==
    IF r.raised
    THEN [acc EXCEPT !.raised = TRUE,
                     !.called = @ \cup {<<pm.container_id, pm.runtime>>},
                     !.looked = IF r.looked THEN Append(@, <<pm.container_id, pm.runtime>>) ELSE @]
    ELSE collect_filter([acc EXCEPT !.cache = r.cache,
                                    !.called = @ \cup {<<pm.container_id, pm.runtime>>},
                                    !.looked = IF r.looked
                                               THEN Append(@, <<pm.container_id, pm.runtime>>)
                                               ELSE @],
                        SetAttrs(pm, r.value))

collect_resolve(acc, pm, env) ==
    collect_resolved(acc, pm,
                     resolve_container_metadata(acc.cache, pm.container_id, pm.runtime, env))

\* if pm.runtime != "host" and not pm.container_id: pm.container_id = extract_container_id(..)
collect_extract(acc, pm, env) ==
    collect_resolve(acc,
                    IF pm.runtime # T_host /\ pm.container_id = <<>>
                    THEN [pm EXCEPT !.container_id = extract_container_id(pm.cgroup_path, pm.runtime)]
                    ELSE pm,
                    env)

\* a loop body that lets the failure of a line leave the loop
collect_parts_abort(acc, parts, env) ==
    IF parts = <<>> THEN acc
    ELSE IF Len(parts) < 13 \/ ~ParseOk(parts) THEN [acc EXCEPT !.raised = TRUE]
    ELSE collect_extract(acc, ProcessMetric(parts), env)

\* the checks of one line, parts = line.strip().split('\t')
collect_parts(acc, parts, env) ==
    IF parts = <<>> \/ Len(parts) < 13 THEN acc
    ELSE IF ~ParseOk(parts) THEN acc
    ELSE collect_extract(acc, ProcessMetric(parts), env)

collect_line(acc, line, env) ==
    IF acc.raised THEN acc ELSE collect_parts(acc, StripLine(line), env)

RECURSIVE collect_lines(_, _, _)
collect_lines(acc, lines, env) ==
    IF lines = <<>> THEN acc
    ELSE collect_lines(collect_line(acc, Head(lines), env), Tail(lines), env)

CollectorOutcomes == {"ok", "nonzero", "timeout", "missing"}

\* the objects of list at the indices of the sequence idx
AtIndices(list, idx) == [k \in 1..Len(idx) |-> list[idx[k]]]

\* return sorted(processes, key=lambda p: p.cpu_pct + p.mem_pct, reverse=True)[:TOP_N]
collect_return(acc) ==
    [raised |-> acc.raised,
     processes |-> IF acc.raised THEN <<>>
                   ELSE AtIndices(acc.processes,
                                  Slice(sorted_desc([i \in 1..Len(acc.processes) |->
                                                      acc.processes[i].cpu_pct
                                                      + acc.processes[i].mem_pct]),
                                        TOP_N)),
     appended |-> acc.processes,
     cache |-> acc.cache,
     called |-> acc.called,
     looked |-> acc.looked]

\* collect_data(): outcome is how ./collector.sh ended (CalledProcessError,
\* TimeoutError of the alarm, FileNotFoundError), stdout what it had written.
\* The result: raised (an exception left collect_data), processes (the returned
\* list), appended (the list before the final sort and cut), cache, called, looked.
collect_parse(stdout, c, env) ==
    collect_return(collect_lines([processes |-> <<>>, cache |-> c, called |-> {},
                                  looked |-> <<>>, raised |-> FALSE], stdout, env))

\* a collect_data that keeps what the collector had written when the alarm fired
collect_data_salvage(outcome, stdout, c, env) ==
    IF outcome \in {"nonzero", "missing"}
    THEN [raised |-> FALSE, processes |-> <<>>, appended |-> <<>>,
          cache |-> c, called |-> {}, looked |-> <<>>]
    ELSE collect_parse(stdout, c, env)

collect_data(outcome, stdout, c, env) ==
    IF outcome # "ok"
    THEN [raised |-> FALSE, processes |-> <<>>, appended |-> <<>>,
          cache |-> c, called |-> {}, looked |-> <<>>]
    ELSE collect_parse(stdout, c, env)

(***************************************************************************)
(* Top-N aggregation (collector.py: get_top_n, aggregate_top). The list    *)
(* holds objects: a ranked list is a sequence of indices into processes,   *)
(* and get_top_n writes the rank into the object itself.                   *)
(***************************************************************************)
\* the position of index i in the sequence top, 0 when it is not in it
PosIn(top, i) ==
    IF \E k \in 1..Len(top) : top[k] = i THEN CHOOSE k \in 1..Len(top) : top[k] = i ELSE 0

\* for rank, p in enumerate(top, 1): p.rank = rank
SetRanks(processes, top) ==
    [top |-> top,
     processes |-> [i \in 1..Len(processes) |->
                       IF PosIn(top, i) > 0
                       THEN [processes[i] EXCEPT !.rank = PosIn(top, i)]
                       ELSE processes[i]]]

\* a get_top_n without the [:n]
get_top_n_uncut(processes, keys) == SetRanks(processes, sorted_desc(keys))

\* get_top_n(processes, key_func), keys the values of key_func: [top, processes],
\* top the indices of the list returned and processes the objects with p.rank set
get_top_n(processes, keys) == SetRanks(processes, Slice(sorted_desc(keys), TOP_N))

\* the key functions of aggregate_top (floats in tenths, scaled by ten where needed)
key_func(dim, p) ==
    CASE dim = "memory" -> p.mem_rss_kb * (10 + p.mem_pct)
      [] dim = "cpu" -> p.cpu_pct
      [] dim = "disk_read" -> p.disk_read_bytes
      [] dim = "disk_write" -> p.disk_write_bytes
      [] dim = "combined" -> p.cpu_pct + p.mem_pct * 10

\* the keys of the dict literal of aggregate_top, in the order it is evaluated
Dimensions == <<"memory", "cpu", "disk_read", "disk_write", "combined">>

AggregateStep(acc, dim, t) == [acc EXCEPT ![dim] = t.top, !.processes = t.processes]

RECURSIVE AggregateFrom(_, _)
AggregateFrom(acc, dims) ==
    IF dims = <<>> THEN acc
    ELSE AggregateFrom(
           AggregateStep(acc, Head(dims),
                         get_top_n(acc.processes,
                                   [i \in 1..Len(acc.processes) |->
                                       key_func(Head(dims), acc.processes[i])])),
           Tail(dims))

\* aggregate_top(processes): one index list per dimension, and the objects
aggregate_top(processes) ==
    AggregateFrom([memory |-> <<>>, cpu |-> <<>>, disk_read |-> <<>>, disk_write |-> <<>>,
                   combined |-> <<>>, processes |-> processes], Dimensions)

(***************************************************************************)
(* Label projection (exporter.py: VALID_LABELS, LABEL_ALIASES,             *)
(* normalize_labels, labels_for). Label names are texts like the values.   *)
(***************************************************************************)
N_pid == <<"p", "i", "d">>
N_user == <<"u", "s", "e", "r">>
N_command == <<"c", "o", "m", "m", "a", "n", "d">>
N_runtime == <<"r", "u", "n", "t", "i", "m", "e">>
N_cgroup_version == <<"c", "g", "r", "o", "u", "p", "_", "v", "e", "r", "s", "i", "o", "n">>
N_rank == <<"r", "a", "n", "k">>
N_container_id == <<"c", "o", "n", "t", "a", "i", "n", "e", "r", "_", "i", "d">>
N_container_name == <<"c", "o", "n", "t", "a", "i", "n", "e", "r", "_", "n", "a", "m", "e">>
N_pod_name == <<"p", "o", "d", "_", "n", "a", "m", "e">>
N_namespace == <<"n", "a", "m", "e", "s", "p", "a", "c", "e">>
N_ports == <<"p", "o", "r", "t", "s">>
N_hostname == <<"h", "o", "s", "t", "n", "a", "m", "e">>
N_port == <<"p", "o", "r", "t">>
N_host == <<"h", "o", "s", "t">>
N_container == <<"c", "o", "n", "t", "a", "i", "n", "e", "r">>
N_pod == <<"p", "o", "d">>
N_ns == <<"n", "s">>
N_unknown == <<"u", "n", "k", "n", "o", "w", "n">>

VALID_LABELS ==
    {N_pid, N_user, N_command, N_runtime, N_cgroup_version, N_rank, N_container_id,
     N_container_name, N_pod_name, N_namespace, N_ports, N_hostname}

\* LABEL_ALIASES.get(label, label)
LABEL_ALIASES(label) ==
    CASE label = N_port -> N_ports
      [] label = N_host -> N_hostname
      [] label = N_container -> N_container_name
      [] label = N_pod -> N_pod_name
      [] label = N_ns -> N_namespace
      [] OTHER -> label

\* normalize_labels(raw_labels), raw the pieces of raw_labels.split(",")
normalize_labels(raw) ==
    {LABEL_ALIASES(strip(raw[i])) :
        i \in {j \in 1..Len(raw) : strip(raw[j]) # <<>>
                                   /\ LABEL_ALIASES(strip(raw[j])) \in VALID_LABELS}}

\* the default of INCLUDE_LABELS
DefaultLabels ==
    <<N_pid, N_user, N_command, N_runtime, N_rank, N_container_id, N_container_name,
      N_pod_name, N_namespace, N_ports, N_hostname>>

HOSTNAME == <<"h">>

\* a projection that returns every label it was given
Project_all(all_labels, include) == all_labels

\* {k: v for k, v in all_labels.items() if k in _INCLUDE_LABELS_SET}
Project(all_labels, include) ==
    [k \in (DOMAIN all_labels) \cap include |-> all_labels[k]]

\* labels_for(p) under the allow-list include (_INCLUDE_LABELS_SET)
labels_for(p, include) ==
    Project((N_pid :> str(p.pid))
            @@ (N_user :> p.user)
            @@ (N_command :> Slice(p.command, 64))
            @@ (N_runtime :> p.runtime)
            @@ (N_cgroup_version :>
                  IF p.cgroup_version = <<>> THEN N_unknown ELSE p.cgroup_version)
            @@ (N_rank :> str(p.rank))
            @@ (N_container_id :> Slice(p.container_id, 12))
            @@ (N_container_name :> Slice(p.container_name, 64))
            @@ (N_pod_name :> Slice(p.pod_name, 64))
            @@ (N_namespace :> Slice(p.namespace, 64))
            @@ (N_ports :> IF p.ports = None THEN <<>> ELSE p.ports)
            @@ (N_hostname :> HOSTNAME),
            include)

(***************************************************************************)
(* The registry and the /metrics handler (exporter.py).                    *)
(***************************************************************************)
VARIABLES
    pc,                   \* where run() is: "starting", "loop" (the while test),
                          \* "select" (handle_request waits), "handle" (a request
                          \* was accepted), "stopped", "exited" (sys.exit(1))
    shutdown_flag,        \* threading.Event shutdown_flag
    _INCLUDE_LABELS_SET,  \* the normalized allow-list
    gauges,               \* ALL_METRICS: metric name -> set of [labels, value]
    PROCESSES_TOTAL,      \* runtime -> value of upm_processes_scraped_total
    SCRAPE_ERRORS,        \* upm_scrape_errors_total
    SCRAPE_DURATION,      \* count of upm_scrape_duration_seconds
    cache,                \* the lru_cache of resolve_container_metadata
    lookups,              \* key -> number of docker/podman lookups run for it
    keys_seen,            \* the keys resolve_container_metadata was called with
    last                  \* the last /metrics exchange: n its number, status the
                          \* response status, collector how ./collector.sh ended
                          \* (prev: in the exchange before), raised whether
                          \* collect_data raised, processes what it returned,
                          \* appended its list before the final sort and cut, tops
                          \* the ranked lists as the rendering loops read them,
                          \* errors_before the error counter before the exchange,
                          \* dropped whether a series of the registry went away,
                          \* partial whether the gauges hold what rendering loops
                          \* set before an exception ended them
VARIABLE
    fx                    \* the operands and the result of a function that is
                          \* studied on its own, outside the serving loop

vars == <<pc, shutdown_flag, _INCLUDE_LABELS_SET, gauges, PROCESSES_TOTAL,
          SCRAPE_ERRORS, SCRAPE_DURATION, cache, lookups, keys_seen, last, fx>>

ALL_METRICS ==
    {"PROCESS_CPU", "PROCESS_MEM_BYTES", "PROCESS_MEM_PERCENT", "PROCESS_DISK_READ",
     "PROCESS_DISK_WRITE", "PROCESS_UPTIME"}

\* m.labels(**labels).set(value) on the samples of one gauge
GaugeSet(samples, labels, value) ==
    {e \in samples : e.labels # labels} \cup {[labels |-> labels, value |-> value]}

\* a clear_metrics that forgets the uptime gauge
clear_metrics_but_uptime(g) == [m \in ALL_METRICS |-> IF m = "PROCESS_UPTIME" THEN g[m] ELSE {}]

\* clear_metrics()
clear_metrics(g) == [m \in ALL_METRICS |-> {}]

\* for rt, count in runtime_counts.items(): PROCESSES_TOTAL.labels(runtime=rt).set(count)
SetRuntimeCounts(total, processes) ==
    LET rts == {processes[i].runtime : i \in 1..Len(processes)}
        count(rt) == Cardinality({i \in 1..Len(processes) : processes[i].runtime = rt})
    IN [rt \in (DOMAIN total) \cup rts |-> IF rt \in rts THEN count(rt) ELSE total[rt]]

MetricValue(m, p) ==
    CASE m = "PROCESS_CPU" -> p.cpu_pct
      [] m = "PROCESS_MEM_BYTES" -> p.mem_rss_kb * 1024
      [] m = "PROCESS_MEM_PERCENT" -> p.mem_pct
      [] m = "PROCESS_DISK_READ" -> p.disk_read_bytes
      [] m = "PROCESS_DISK_WRITE" -> p.disk_write_bytes
      [] m = "PROCESS_UPTIME" -> p.uptime_sec

\* the body of one rendering loop: labels = labels_for(p), then the .set() calls
SetOne(g, labels, p, metrics) ==
    [m \in ALL_METRICS |->
        IF m \in metrics THEN GaugeSet(g[m], labels, MetricValue(m, p)) ELSE g[m]]

\* labels_for(p) raises TypeError: (p.container_name or "")[:64] of a number
labels_for_raises(p) == p.container_name = NotText

\* one "for p in tops.get(dim, [])" loop, setting the gauges named in metrics; acc is
\* [g, raised]: the gauges so far, and whether an exception has left the loops
RECURSIVE SetAll(_, _, _, _)
SetAll(acc, list, include, metrics) ==
    IF acc.raised \/ list = <<>> THEN acc
    ELSE IF labels_for_raises(Head(list)) THEN [acc EXCEPT !.raised = TRUE]
    ELSE SetAll([acc EXCEPT !.g = SetOne(@, labels_for(Head(list), include), Head(list),
                                         metrics)],
                Tail(list), include, metrics)

\* the objects of a ranked list, as the rendering loops read them
Objects(tops, dim) == AtIndices(tops.processes, tops[dim])

\* the four rendering loops of _handle_metrics
Populate(g, tops, include) ==
    SetAll(SetAll(SetAll(SetAll([g |-> g, raised |-> FALSE], Objects(tops, "cpu"), include,
                                {"PROCESS_CPU", "PROCESS_UPTIME"}),
                         Objects(tops, "memory"), include,
                         {"PROCESS_MEM_BYTES", "PROCESS_MEM_PERCENT", "PROCESS_UPTIME"}),
                  Objects(tops, "disk_read"), include,
                  {"PROCESS_DISK_READ", "PROCESS_UPTIME"}),
           Objects(tops, "disk_write"), include,
           {"PROCESS_DISK_WRITE", "PROCESS_UPTIME"})

\* generate_latest(): every series of the registry
generate_latest(g, total, errors) ==
    [gauges |-> g, PROCESSES_TOTAL |-> total, SCRAPE_ERRORS |-> errors]

\* _write_metrics(): status 200 with the rendered registry
_write_metrics(g, total, errors, cd, tops) ==
    [gauges |-> g, total |-> total, errors |-> errors, cd |-> cd, status |-> 200,
     tops |-> tops, body |-> generate_latest(g, total, errors)]

NoTops == [memory |-> <<>>, cpu |-> <<>>, disk_read |-> <<>>, disk_write |-> <<>>]
NoBody == generate_latest([m \in ALL_METRICS |-> {}], <<>>, 0)

\* the tail of _handle_metrics, tops = aggregate_top(processes): the rendering
\* loops over the four lists, then the response
RenderPopulated(populated, total, errors, cd, tops) ==
    IF populated.raised
    THEN \* except Exception: SCRAPE_ERRORS.inc(); send_error(500)
         [gauges |-> populated.g, total |-> total, errors |-> errors + 1, cd |-> cd,
          status |-> 500, tops |-> NoTops, body |-> NoBody]
    ELSE _write_metrics(populated.g, total, errors, cd,
                        [d \in DOMAIN NoTops |-> Objects(tops, d)])

RenderTops(g, total, errors, cd, tops, include) ==
    RenderPopulated(Populate(g, tops, include), total, errors, cd, tops)

\* _handle_metrics() after processes = collect_data() gave cd: the registry and
\* the response it leaves
Scrape(g, total, errors, cd, include) ==
    IF cd.raised
    THEN \* except Exception: SCRAPE_ERRORS.inc(); send_error(500)
         [gauges |-> g, total |-> total, errors |-> errors + 1, cd |-> cd,
          status |-> 500, tops |-> NoTops, body |-> NoBody]
    ELSE IF cd.processes = <<>>
    THEN \* if not processes: self._write_metrics(); return
         _write_metrics(g, total, errors, cd, NoTops)
    ELSE RenderTops(clear_metrics(g), SetRuntimeCounts(total, cd.processes), errors, cd,
                    aggregate_top(cd.processes), include)

\* _handle_metrics()
_handle_metrics(outcome, stdout, env) ==
    Scrape(gauges, PROCESSES_TOTAL, SCRAPE_ERRORS,
           collect_data(outcome, stdout, cache, env), _INCLUDE_LABELS_SET)

(***************************************************************************)
(* The inputs of the model: what ./collector.sh writes, how it ends, what  *)
(* the container runtimes answer, and the configured INCLUDE_LABELS.       *)
(***************************************************************************)
Hex16 == <<"a", "b", "c", "d", "e", "f", "0", "1", "2", "3", "4", "5", "6", "7", "8", "9">>
Hex12 == <<"0", "1", "2", "3", "4", "5", "6", "7", "8", "9", "a", "b">>

TsvLine(pid, pcpu, pmem, rss, etimes, comm, disk_read, disk_write, ports, cgroup, runtime) ==
    <<pid, <<"u">>, pcpu, pmem, rss, etimes, comm, disk_read, disk_write, ports, cgroup,
      <<"v", "2">>, runtime>>

\* a host process with the highest cpu and no memory share
LineA == TsvLine(<<"1">>, <<"9", ".", "0">>, <<"0", ".", "0">>, <<"1", "0">>, <<"7">>,
                 <<"a">>, <<"0">>, <<"5">>, <<>>, <<"/">>, T_host)
\* a docker container, low cpu and a high memory share
LineB == TsvLine(<<"2">>, <<"1", ".", "0">>, <<"9", ".", "0">>, <<"2", "0">>, <<"8">>,
                 <<"b">>, <<"5">>, <<"0">>, <<"8", "0">>,
                 <<"/">> \o L_docker_slash \o Hex16, T_docker)
\* a podman container
LineC == TsvLine(<<"3">>, <<"5", ".", "0">>, <<"5", ".", "0">>, <<"3", "0">>, <<"9">>,
                 <<"c">>, <<"3">>, <<"3">>, <<>>,
                 <<"/">> \o L_libpod \o Hex12, T_podman)
\* a kernel thread
LineK == TsvLine(<<"4">>, <<"9", ".", "9">>, <<"0">>, <<"0">>, <<"1">>,
                 <<"[", "k", "]">>, <<"0">>, <<"0">>, <<>>, <<"/">>, T_host)
\* a line with too few fields
LineX == <<<<"5">>, <<"u">>, <<"1", ".", "0">>>>

Catalogue == <<LineA, LineB, LineC, LineK, LineX>>

\* the lines of Catalogue whose index is in S, in the collector's order
RECURSIVE Pick(_, _)
Pick(S, i) ==
    IF i > Len(Catalogue) THEN <<>>
    ELSE (IF i \in S THEN <<Catalogue[i]>> ELSE <<>>) \o Pick(S, i + 1)

\* what the collector had written when it ended: anything on success, a started
\* output when it failed or was cut by the alarm, nothing when the binary is missing
Stdouts(outcome) ==
    CASE outcome = "ok" -> {Pick(S, 1) : S \in SUBSET (1..Len(Catalogue))}
      [] outcome = "missing" -> {<<>>}
      [] OTHER -> {SubSeq(Catalogue, 1, n) : n \in 0..Len(Catalogue)}

\* a line of stdout names runtime rt and a container whose metadata is not cached
Asks(stdout, rt) ==
    \E i \in 1..Len(stdout) :
       /\ Len(stdout[i]) >= 13
       /\ stdout[i][13] = rt
       /\ CacheIndex(cache, <<extract_container_id(stdout[i][11], rt), rt>>) = 0

\* the answers of the runtimes that a parse of this output can ask for
Envs(outcome, stdout) ==
    [docker : IF outcome = "ok" /\ Asks(stdout, T_docker) THEN DockerOutcomes ELSE {"nomatch"},
     podman : IF outcome = "ok" /\ Asks(stdout, T_podman) THEN PodmanOutcomes ELSE {"nonzero"}]

\* INCLUDE_LABELS: unset (the default list), or a list of unknown names only
RawLabelConfigs == {DefaultLabels, <<<<"b", "o", "g", "u", "s">>, <<>>>>}

(***************************************************************************)
(* The exporter process (exporter.py: module start-up, run,                *)
(* shutdown_handler, MetricsHandler).                                      *)
(***************************************************************************)
NoLast ==
    [n |-> 0, status |-> 0, collector |-> "none", prev |-> "none", raised |-> FALSE,
     processes |-> <<>>, appended |-> <<>>, tops |-> NoTops, errors_before |-> 0,
     dropped |-> FALSE, partial |-> FALSE]

NoFx == [stage |-> "none"]

Init ==
    /\ pc = "starting"
    /\ shutdown_flag = FALSE
    /\ _INCLUDE_LABELS_SET \in {normalize_labels(raw) : raw \in RawLabelConfigs}
    /\ gauges = [m \in ALL_METRICS |-> {}]
    /\ PROCESSES_TOTAL = <<>>
    /\ SCRAPE_ERRORS = 0
    /\ SCRAPE_DURATION = 0
    /\ cache = <<>>
    /\ lookups = <<>>
    /\ keys_seen = {}
    /\ last = NoLast
    /\ fx = NoFx

registry == <<gauges, PROCESSES_TOTAL, SCRAPE_ERRORS, SCRAPE_DURATION, cache, lookups,
              keys_seen, last>>

\* module start-up and the head of run(): the port guard, the bind, the label guard
Start ==
    /\ pc = "starting"
    /\ \E port_available \in BOOLEAN :
         pc' = IF ~port_available \/ _INCLUDE_LABELS_SET = {} THEN "exited" ELSE "loop"
    /\ UNCHANGED <<fx, shutdown_flag, _INCLUDE_LABELS_SET, registry>>

\* shutdown_handler: SIGTERM or SIGINT, delivered between two bytecodes of the main thread
shutdown_handler ==
    /\ pc \in {"loop", "select", "handle"}
    /\ shutdown_flag' = TRUE
    /\ UNCHANGED <<fx, pc, _INCLUDE_LABELS_SET, registry>>

\* while not shutdown_flag.is_set():
LoopTest ==
    /\ pc = "loop"
    /\ pc' = IF shutdown_flag THEN "stopped" ELSE "select"
    /\ UNCHANGED <<fx, shutdown_flag, _INCLUDE_LABELS_SET, registry>>

\* server.handle_request(): server.timeout passes with no connection
HandleTimeout ==
    /\ pc = "select"
    /\ pc' = "loop"
    /\ UNCHANGED <<fx, shutdown_flag, _INCLUDE_LABELS_SET, registry>>

\* server.handle_request(): a connection is ready and is accepted
Accept ==
    /\ pc = "select"
    /\ pc' = "handle"
    /\ UNCHANGED <<fx, shutdown_flag, _INCLUDE_LABELS_SET, registry>>

Bump(f, k) == IF k \in DOMAIN f THEN [f EXCEPT ![k] = @ + 1] ELSE f @@ (k :> 1)

RECURSIVE BumpAll(_, _)
BumpAll(f, ks) == IF ks = <<>> THEN f ELSE BumpAll(Bump(f, Head(ks)), Tail(ks))

\* do_GET with path /metrics
HandleMetrics ==
    /\ pc = "handle"
    /\ SCRAPE_DURATION < MaxScrapes
    /\ \E outcome \in CollectorOutcomes :
         \E stdout \in Stdouts(outcome) :
           \E env \in Envs(outcome, stdout) :
             \E h \in {_handle_metrics(outcome, stdout, env)} :
               /\ gauges' = h.gauges
               /\ PROCESSES_TOTAL' = h.total
               /\ SCRAPE_ERRORS' = h.errors
               /\ cache' = h.cd.cache
               /\ lookups' = BumpAll(lookups, h.cd.looked)
               /\ keys_seen' = keys_seen \cup h.cd.called
               /\ last' = [n |-> SCRAPE_DURATION + 1, status |-> h.status,
                           collector |-> outcome, prev |-> last.collector,
                           raised |-> h.cd.raised,
                           processes |-> h.cd.processes, appended |-> h.cd.appended,
                           tops |-> h.tops, errors_before |-> SCRAPE_ERRORS,
                           dropped |-> \E m \in ALL_METRICS : \E e \in gauges[m] :
                                          \A f \in h.gauges[m] : f.labels # e.labels,
                           partial |-> IF h.cd.raised \/ h.cd.processes = <<>>
                                       THEN last.partial
                                       ELSE /\ h.status # 200
                                            /\ \E m \in ALL_METRICS : h.gauges[m] # {}]
    /\ SCRAPE_DURATION' = SCRAPE_DURATION + 1
    /\ pc' = "loop"
    /\ UNCHANGED <<fx, shutdown_flag, _INCLUDE_LABELS_SET>>

\* do_GET with path /health or /ready: _handle_ok
HandleOk ==
    /\ pc = "handle"
    /\ pc' = "loop"
    /\ UNCHANGED <<fx, shutdown_flag, _INCLUDE_LABELS_SET, registry>>

\* do_GET with any other path: 404
HandleNotFound ==
    /\ pc = "handle"
    /\ pc' = "loop"
    /\ UNCHANGED <<fx, shutdown_flag, _INCLUDE_LABELS_SET, registry>>

Next ==
    \/ Start
    \/ shutdown_handler
    \/ LoopTest
    \/ HandleTimeout
    \/ Accept
    \/ HandleMetrics
    \/ HandleOk
    \/ HandleNotFound

Spec == Init /\ [][Next]_vars

(***************************************************************************)
(* Properties. A /metrics exchange has taken place when last.n > 0; the    *)
(* registry is not written between two exchanges, so what holds of it and  *)
(* of last holds from the end of the exchange on.                          *)
(***************************************************************************)
CollectorFailed == last.n > 0 /\ last.collector \in {"nonzero", "timeout", "missing"}
Answered200 == last.n > 0 /\ last.status = 200
RenderedDimensions == {"cpu", "memory", "disk_read", "disk_write"}

\* the label tuples of the samples of a gauge
LabelsOf(samples) == {e.labels : e \in samples}
\* the label tuples of the entries of a rendered list
LabelsOfList(list) == {labels_for(list[i], _INCLUDE_LABELS_SET) : i \in 1..Len(list)}

\* C1: in every rendered dimension list the entry at position i carries rank i, and
\* so does the rank label emitted for it.
C1_RankIsPosition ==
    Answered200 =>
      \A d \in RenderedDimensions : \A i \in 1..Len(last.tops[d]) :
         /\ last.tops[d][i].rank = i
         /\ labels_for(last.tops[d][i], _INCLUDE_LABELS_SET)[N_rank] = str(i)

\* the keys of a list, in its order
KeysIn(list, d) == [i \in 1..Len(list) |-> key_func(d, list[i])]
\* list is made of the Min(TOP_N, Len(all)) records of all with the largest keys of
\* dimension d, largest first
IsTopOf(list, all, d) ==
    /\ KeysIn(list, d) = AtIndices(KeysIn(all, d), Slice(sorted_desc(KeysIn(all, d)), TOP_N))
    /\ \A i \in 1..Len(list) : \E j \in 1..Len(all) : [list[i] EXCEPT !.rank = 0] = all[j]

\* C2: the rendered cpu, disk-read and disk-write lists are the top N of all the
\* eligible records of the collector output, by their own key, in descending order.
C2_TopOfAllEligible ==
    Answered200 =>
      \A d \in {"cpu", "disk_read", "disk_write"} : IsTopOf(last.tops[d], last.appended, d)

\* C3: after a scrape in which collect_data returned no records, no per-dimension
\* gauge holds a series.
C3_EmptyScrapeClears ==
    (Answered200 /\ last.processes = <<>>) => \A m \in ALL_METRICS : gauges[m] = {}

\* C4: a scrape whose collector failed raises upm_scrape_errors_total by exactly 1.
C4_FailureCounted ==
    CollectorFailed => SCRAPE_ERRORS = last.errors_before + 1

\* C5: when the collector fails, collect_data returns no record (nothing of the
\* output is kept), the request is answered 200, and the serving loop goes on: it
\* only ever ends by the shutdown flag.
C5_FailureIsEmpty200 ==
    /\ CollectorFailed =>
         /\ last.processes = <<>> /\ last.appended = <<>>
         /\ ~last.raised
         /\ last.status = 200
    /\ pc = "stopped" => shutdown_flag

\* a failed scrape was answered, and the loop is waiting for the next request
C5_Witness ==
    /\ last.n = 2 /\ last.collector = "timeout" /\ last.prev = "nonzero"
    /\ last.status = 200 /\ pc = "select" /\ ~shutdown_flag

\* C6: after a scrape that collected a record and answered 200, the label tuples of
\* each per-dimension gauge are exactly those of the entries of this scrape's list
\* for the dimension, and those of the uptime gauge exactly those of all four lists.
C6_OnlyFreshSeries ==
    (Answered200 /\ last.processes # <<>>) =>
      /\ LabelsOf(gauges["PROCESS_CPU"]) = LabelsOfList(last.tops["cpu"])
      /\ LabelsOf(gauges["PROCESS_MEM_BYTES"]) = LabelsOfList(last.tops["memory"])
      /\ LabelsOf(gauges["PROCESS_MEM_PERCENT"]) = LabelsOfList(last.tops["memory"])
      /\ LabelsOf(gauges["PROCESS_DISK_READ"]) = LabelsOfList(last.tops["disk_read"])
      /\ LabelsOf(gauges["PROCESS_DISK_WRITE"]) = LabelsOfList(last.tops["disk_write"])
      /\ LabelsOf(gauges["PROCESS_UPTIME"]) =
           UNION {LabelsOfList(last.tops[d]) : d \in RenderedDimensions}

\* a scrape that collected a record replaced the series of an earlier scrape
C6_Witness ==
    Answered200 /\ last.processes # <<>> /\ last.n = 2 /\ last.dropped

\* the value of upm_processes_scraped_total for a runtime, 0 when it has no series
Exposed(rt) == IF rt \in DOMAIN PROCESSES_TOTAL THEN PROCESSES_TOTAL[rt] ELSE 0
RuntimeTags == {T_host, T_docker, T_containerd, T_kubernetes, T_podman, T_lxc}

\* C7: after a scrape, the per-runtime count gauge shows, for every runtime, the
\* number of eligible records of this scrape with that runtime.
C7_CountsAllEligible ==
    Answered200 =>
      \A rt \in RuntimeTags \cup DOMAIN PROCESSES_TOTAL :
         Exposed(rt) = Cardinality({i \in 1..Len(last.appended) : last.appended[i].runtime = rt})

\* C8: while the distinct (container id, runtime) pairs stay within the capacity of
\* the cache, the docker or podman lookup of a pair is run at most once.
C8_LookupAtMostOnce ==
    Cardinality(keys_seen) <= maxsize => \A k \in DOMAIN lookups : lookups[k] <= 1

\* C9: no failure of a metadata lookup leaves collect_data: the scrape completes.
C9_LookupErrorsRecovered ==
    last.n > 0 => (~last.raised /\ last.status = 200)

\* C10: once the shutdown flag is set, no further request is accepted.
C10_NoAcceptWhileDraining ==
    [][(shutdown_flag /\ pc = "select") => pc' # "handle"]_vars

(***************************************************************************)
(* The runtime classifier and the container id extractor on their own.     *)
(*                                                                         *)
(* collector.py reads the runtime tag of a record from the thirteenth      *)
(* field of its line (collector.py:126); the tag is computed from the      *)
(* cgroup path by ./collector.sh. The classifier of collector.sh is        *)
(* modelled from section 4.2 of spec.md: an ordered list of (tag, pattern) *)
(* rules, the first match wins, the kubernetes rule stands before the      *)
(* docker and containerd rules, and no match is host.                      *)
(***************************************************************************)
T_systemd == <<"s", "y", "s", "t", "e", "m", "d">>

RUNTIME_TAGS == {T_kubernetes, T_docker, T_containerd, T_podman, T_lxc, T_systemd, T_host}

\* lit in s
contains(s, lit) ==
    \E i \in 1..(Len(s) - Len(lit) + 1) : SubSeq(s, i, i + Len(lit) - 1) = lit

L_kubepods == <<"k", "u", "b", "e", "p", "o", "d", "s">>
L_libpod_word == <<"l", "i", "b", "p", "o", "d">>
L_system_slice == <<"s", "y", "s", "t", "e", "m", ".", "s", "l", "i", "c", "e">>

\* the (tag, pattern) rules, in the order they are tried
classify_rules ==
    <<<<T_kubernetes, L_kubepods>>, <<T_docker, T_docker>>, <<T_containerd, T_containerd>>,
      <<T_podman, L_libpod_word>>, <<T_lxc, T_lxc>>, <<T_systemd, L_system_slice>>>>

RECURSIVE classify_from(_, _)
classify_from(cgroup_path, rules) ==
    IF rules = <<>> THEN T_host
    ELSE IF contains(cgroup_path, Head(rules)[2]) THEN Head(rules)[1]
    ELSE classify_from(cgroup_path, Tail(rules))

classify_runtime(cgroup_path) == classify_from(cgroup_path, classify_rules)

\* cgroup paths: a prefix, a runtime segment, an identifier and a suffix
CgroupPrefixes ==
    {<<"/">>, <<"/", "k", "u", "b", "e", "p", "o", "d", "s", "/", "b", "u", "r", "s", "t", "a", "b", "l", "e", "/", "p", "o", "d", "1", "2", "3", "/">>, <<"/", "s", "y", "s", "t", "e", "m", ".", "s", "l", "i", "c", "e", "/">>, <<"/", "u", "s", "e", "r", ".", "s", "l", "i", "c", "e", "/">>}
CgroupSegments ==
    {<<>>, <<"d", "o", "c", "k", "e", "r", "-">>, <<"d", "o", "c", "k", "e", "r", "/">>, <<"c", "r", "i", "-", "c", "o", "n", "t", "a", "i", "n", "e", "r", "d", "-">>, <<"l", "i", "b", "p", "o", "d", "-">>, <<"l", "x", "c", "/">>}
CgroupIds ==
    {<<>>, <<"a", "b", "c", "d", "e", "f", "0", "1", "2", "3", "4">>, <<"a", "b", "c", "d", "e", "f", "0", "1", "2", "3", "4", "5">>, <<"a", "b", "c", "d", "e", "f", "0", "1", "2", "3", "4", "5", "6", "7", "8", "9", "a", "b", "c", "d", "e", "f">>, <<"w", "e", "b">>,
     <<"m", "y", "c", "o", "n", "t", "a", "i", "n", "e", "r", "-", "0", "1">>}
CgroupSuffixes == {<<>>, <<".", "s", "c", "o", "p", "e">>}

CgroupPaths ==
    {a \o b \o c \o d : a \in CgroupPrefixes, b \in CgroupSegments, c \in CgroupIds,
                        d \in CgroupSuffixes}

\* the line ./collector.sh writes for a process in the cgroup cgroup_path
ClassifiedLine(pid, cgroup_path) ==
    TsvLine(pid, <<"1", ".", "0">>, <<"1", ".", "0">>, <<"1", "0">>, <<"7">>, <<"a">>,
            <<"0">>, <<"0">>, <<>>, cgroup_path, classify_runtime(cgroup_path))

\* no container is known to docker or podman
QuietEnv == [docker |-> "nomatch", podman |-> "nonzero"]

InitCgroup ==
    /\ pc = "starting" /\ shutdown_flag = FALSE
    /\ _INCLUDE_LABELS_SET = normalize_labels(DefaultLabels)
    /\ gauges = [m \in ALL_METRICS |-> {}]
    /\ PROCESSES_TOTAL = <<>> /\ SCRAPE_ERRORS = 0 /\ SCRAPE_DURATION = 0
    /\ cache = <<>> /\ lookups = <<>> /\ keys_seen = {} /\ last = NoLast
    /\ \E path \in CgroupPaths : fx = [stage |-> "path", path |-> path]

\* two processes of the cgroup are listed, and collect_data parses their lines;
\* extract_container_id is also applied to the path under every runtime
ExtractIds ==
    /\ fx.stage = "path"
    /\ fx' = [stage |-> "extracted", path |-> fx.path,
              records |-> collect_parse(<<ClassifiedLine(<<"7">>, fx.path),
                                          ClassifiedLine(<<"8">>, fx.path)>>,
                                        <<>>, QuietEnv).appended,
              ids |-> [rt \in RUNTIME_TAGS |-> extract_container_id(fx.path, rt)]]
    /\ UNCHANGED <<pc, shutdown_flag, _INCLUDE_LABELS_SET, registry>>

NextCgroup == ExtractIds

SpecCgroup == InitCgroup /\ [][NextCgroup]_vars

PatternLiterals(rt) ==
    CASE rt = T_docker -> {L_docker_slash, L_docker_dash}
      [] rt = T_containerd -> {L_cri}
      [] rt = T_kubernetes -> {L_cri, L_docker_dash, L_kubepods_slash}
      [] rt = T_podman -> {L_libpod}
      [] rt = T_lxc -> {L_lxc_slash}
      [] OTHER -> {}

RECURSIVE split(_, _)
split(s, sep) ==
    IF \E i \in 1..Len(s) : s[i] = sep
    THEN LET i == MinOf({j \in 1..Len(s) : s[j] = sep})
         IN <<SubSeq(s, 1, i - 1)>> \o split(SubSeq(s, i + 1, Len(s)), sep)
    ELSE <<s>>

\* the names an operator may write into INCLUDE_LABELS
LabelItems ==
    {N_pid, <<" ", "p", "i", "d", " ">>, N_rank, N_cgroup_version, N_hostname, N_port, N_host, N_container,
     N_pod, N_ns, <<"P", "o", "r", "t">>, <<"b", "o", "g", "u", "s">>, <<>>}

\* INCLUDE_LABELS: one or two names, joined by a comma
LabelTexts ==
    {<<a>> : a \in LabelItems} \cup {<<a, b>> : a \in LabelItems, b \in LabelItems}

JoinComma(items) ==
    IF Len(items) = 1 THEN items[1] ELSE items[1] \o <<",">> \o items[2]

\* a text of n characters c
Long(n, c) == [i \in 1..n |-> c]

\* a process whose free-text fields are long
LineLong ==
    <<<<"6">>, Long(70, "u"), <<"2", ".", "0">>, <<"2", ".", "0">>, <<"4", "0">>, <<"9">>,
      Long(70, "c"), <<"1">>, <<"1">>, Long(70, "8"), <<"/">> \o L_docker_slash \o Hex16,
      <<"v", "2">>, T_docker>>

\* the records of one scrape as the rendering loops read them, ranks set
RankedRecords(stdout, env) ==
    aggregate_top(collect_parse(stdout, <<>>, env).processes).processes

\* records to project: a docker process, a process with long fields, and the same
\* process in a container whose docker name is long
LabelRecords ==
    LET ps == RankedRecords(<<LineB, LineLong>>, [docker |-> "found", podman |-> "nonzero"])
    IN {ps[i] : i \in 1..Len(ps)}
       \cup {SetAttrs(ps[i], [container_name |-> Long(70, "n")]) : i \in 1..Len(ps)}

InitLabels ==
    /\ pc = "starting" /\ shutdown_flag = FALSE
    /\ gauges = [m \in ALL_METRICS |-> {}]
    /\ PROCESSES_TOTAL = <<>> /\ SCRAPE_ERRORS = 0 /\ SCRAPE_DURATION = 0
    /\ cache = <<>> /\ lookups = <<>> /\ keys_seen = {} /\ last = NoLast
    /\ \E items \in LabelTexts :
         /\ fx = [stage |-> "configured", items |-> items]
         /\ _INCLUDE_LABELS_SET = normalize_labels(split(JoinComma(items), ","))

\* labels = labels_for(p)
ProjectLabels ==
    /\ fx.stage = "configured"
    /\ \E p \in LabelRecords :
         fx' = [stage |-> "projected", items |-> fx.items, p |-> p,
                labels |-> labels_for(p, _INCLUDE_LABELS_SET)]
    /\ UNCHANGED <<pc, shutdown_flag, _INCLUDE_LABELS_SET, registry>>

NextLabels == ProjectLabels

SpecLabels == InitLabels /\ [][NextLabels]_vars

\* what a requested name stands for: the aliases with their canonical names
CanonicalName(name) ==
    IF name = N_port THEN N_ports
    ELSE IF name = N_host THEN N_hostname
    ELSE IF name = N_container THEN N_container_name
    ELSE IF name = N_pod THEN N_pod_name
    ELSE IF name = N_ns THEN N_namespace
    ELSE name

CanonicalLabels ==
    {N_pid, N_user, N_command, N_runtime, N_cgroup_version, N_rank, N_container_id,
     N_container_name, N_pod_name, N_namespace, N_ports, N_hostname}

Requested == {strip(fx.items[i]) : i \in 1..Len(fx.items)} \ {<<>>}

\* C13: labels_for emits only names of the allow-list of normalize_labels, which is
\* within the canonical label set; a requested alias is emitted under its canonical
\* name, and a requested name that does not resolve is never emitted.
C13_OnlyAllowedLabels ==
    fx.stage = "projected" =>
      /\ DOMAIN fx.labels \subseteq _INCLUDE_LABELS_SET
      /\ _INCLUDE_LABELS_SET \subseteq CanonicalLabels
      /\ \A name \in Requested :
           IF CanonicalName(name) \in CanonicalLabels
           THEN CanonicalName(name) \in DOMAIN fx.labels
           ELSE name \notin DOMAIN fx.labels
      /\ \A name \in DOMAIN fx.labels : \E r \in Requested : CanonicalName(r) = name

C13_Witness ==
    /\ fx.stage = "projected"
    /\ fx.items = <<N_port, <<"b", "o", "g", "u", "s">>>>
    /\ DOMAIN fx.labels = {N_ports}

\* the largest cap labels_for applies to a value
MaxLabelLen == 64

\* C20: every label value labels_for emits is capped to a fixed maximum length,
\* whatever the length of the record's field.
C20_ValuesCapped ==
    fx.stage = "projected" =>
      \A name \in DOMAIN fx.labels : Len(fx.labels[name]) <= MaxLabelLen

(***************************************************************************)
(* The response of /metrics on its own (exporter.py: _write_metrics from   *)
(* the rendered text on, compress_gzip). ENABLE_GZIP and GZIP_MIN_SIZE are *)
(* read from the environment at start-up; the rendered text is a sequence  *)
(* of bytes.                                                               *)
(***************************************************************************)
\* the longest rendered text the model writes
MaxOutputLen == 4

L_gzip == <<"g", "z", "i", "p">>

\* compress_gzip(data): a gzip member that holds data
compress_gzip(data) == [member |-> "gzip", data |-> data]

\* use_gzip with > in the place of >=
use_gzip_above(enable_gzip, gzip_min_size, accept_encoding, output) ==
    enable_gzip /\ contains(accept_encoding, L_gzip) /\ Len(output) > gzip_min_size

\* use_gzip = ENABLE_GZIP and 'gzip' in accept_encoding and len(output) >= GZIP_MIN_SIZE
use_gzip(enable_gzip, gzip_min_size, accept_encoding, output) ==
    enable_gzip /\ contains(accept_encoding, L_gzip) /\ Len(output) >= gzip_min_size

\* _write_metrics() from output = generate_latest() on: the status line, the
\* Content-Encoding header ("" when it is not sent) and the body
write_output(enable_gzip, gzip_min_size, accept_encoding, output) ==
    IF use_gzip(enable_gzip, gzip_min_size, accept_encoding, output)
    THEN [status |-> 200, content_encoding |-> L_gzip, body |-> compress_gzip(output)]
    ELSE [status |-> 200, content_encoding |-> <<>>, body |-> output]

\* self.headers.get('Accept-Encoding', ''): no header, or the header a client sends
AcceptEncodings ==
    {<<>>, L_gzip, <<"g", "z", "i", "p", ",", " ", "d", "e", "f", "l", "a", "t", "e">>, <<"d", "e", "f", "l", "a", "t", "e", ",", " ", "g", "z", "i", "p">>, <<"d", "e", "f", "l", "a", "t", "e">>, <<"i", "d", "e", "n", "t", "i", "t", "y">>, <<"b", "r">>}

InitGzip ==
    /\ pc = "starting" /\ shutdown_flag = FALSE
    /\ _INCLUDE_LABELS_SET = normalize_labels(DefaultLabels)
    /\ gauges = [m \in ALL_METRICS |-> {}]
    /\ PROCESSES_TOTAL = <<>> /\ SCRAPE_ERRORS = 0 /\ SCRAPE_DURATION = 0
    /\ cache = <<>> /\ lookups = <<>> /\ keys_seen = {} /\ last = NoLast
    /\ \E enable_gzip \in BOOLEAN, gzip_min_size \in 0..(MaxOutputLen + 1) :
         fx = [stage |-> "started", ENABLE_GZIP |-> enable_gzip,
               GZIP_MIN_SIZE |-> gzip_min_size]

\* one response: the client's header and the rendered text are the request's
WriteOutput ==
    /\ fx.stage \in {"started", "written"}
    /\ \E accept_encoding \in AcceptEncodings, n \in 0..MaxOutputLen :
         fx' = [stage |-> "written", ENABLE_GZIP |-> fx.ENABLE_GZIP,
                GZIP_MIN_SIZE |-> fx.GZIP_MIN_SIZE,
                accept_encoding |-> accept_encoding, output |-> Long(n, "x"),
                response |-> write_output(fx.ENABLE_GZIP, fx.GZIP_MIN_SIZE,
                                          accept_encoding, Long(n, "x"))]
    /\ UNCHANGED <<pc, shutdown_flag, _INCLUDE_LABELS_SET, registry>>

NextGzip == WriteOutput

SpecGzip == InitGzip /\ [][NextGzip]_vars

\* the codings a header lists, one per comma
Advertised(accept_encoding) ==
    {strip(split(accept_encoding, ",")[i]) : i \in 1..Len(split(accept_encoding, ","))}

MaxLines == 3

\* a host process with the cpu share of LineC and a larger memory share
LineD == TsvLine(<<"5">>, <<"5", ".", "0">>, <<"9", ".", "0">>, <<"3", "0">>, <<"9">>,
                 <<"d">>, <<"3">>, <<"3">>, <<>>, <<"/">>, T_host)
\* a line of white space
LineBlank == <<<<" ">>>>
\* a process id that is not a number
LineN == TsvLine(<<"x", "1">>, <<"1", ".", "0">>, <<"1", ".", "0">>, <<"1", "0">>, <<"7">>,
                 <<"n">>, <<"0">>, <<"0">>, <<>>, <<"/">>, T_host)
\* a resident size that is present and empty
LineZ == TsvLine(<<"6">>, <<"1", ".", "0">>, <<"1", ".", "0">>, <<>>, <<"7">>,
                 <<"z">>, <<"0">>, <<"0">>, <<>>, <<"/">>, T_host)

ParseLines == {LineA, LineC, LineD, LineK, LineBlank, LineX, LineN, LineZ}

RECURSIVE SeqsUpTo(_, _)
SeqsUpTo(S, n) ==
    IF n = 0 THEN {<<>>}
    ELSE SeqsUpTo(S, n - 1) \cup {Append(s, x) : s \in {t \in SeqsUpTo(S, n - 1) : Len(t) = n - 1},
                                                  x \in S}

\* podman answers that it knows no such container, or is not installed
ParseEnvs == {QuietEnv, [docker |-> "nomatch", podman |-> "missing"]}

InitParse ==
    /\ pc = "starting" /\ shutdown_flag = FALSE
    /\ _INCLUDE_LABELS_SET = normalize_labels(DefaultLabels)
    /\ gauges = [m \in ALL_METRICS |-> {}]
    /\ PROCESSES_TOTAL = <<>> /\ SCRAPE_ERRORS = 0 /\ SCRAPE_DURATION = 0
    /\ cache = <<>> /\ lookups = <<>> /\ keys_seen = {} /\ last = NoLast
    /\ \E stdout \in SeqsUpTo(ParseLines, MaxLines), env \in ParseEnvs :
         fx = [stage |-> "output", stdout |-> stdout, env |-> env]

\* processes = collect_data(); tops = aggregate_top(processes). all is aggregate_top
\* applied to every record the loop appended.
ParseOutput ==
    /\ fx.stage = "output"
    /\ \E cd \in {collect_data("ok", fx.stdout, <<>>, fx.env)} :
         fx' = [stage |-> "parsed", stdout |-> fx.stdout, env |-> fx.env,
                raised |-> cd.raised, appended |-> cd.appended,
                processes |-> cd.processes,
                tops |-> aggregate_top(cd.processes),
                all |-> aggregate_top(cd.appended)]
    /\ UNCHANGED <<pc, shutdown_flag, _INCLUDE_LABELS_SET, registry>>

NextParse == ParseOutput

SpecParse == InitParse /\ [][NextParse]_vars

\* what the format asks of a line, read off the line itself
Blank(field) == \A k \in 1..Len(field) : field[k] \in WS
IsInteger(field) ==
    LET t == strip(field) IN t # <<>> /\ \A k \in 1..Len(t) : t[k] \in DIGITS
IsDecimal(field) ==
    LET t == strip(field)
    IN /\ t # <<>>
       /\ \A k \in 1..Len(t) : t[k] \in DIGITS \cup {"."}
       /\ Cardinality({k \in 1..Len(t) : t[k] = "."}) <= 1
       /\ \E k \in 1..Len(t) : t[k] \in DIGITS
IntegerFields == {1, 5, 6, 8, 9}
DecimalFields == {3, 4}
EmptyLine(line) == \A f \in 1..Len(line) : Blank(line[f])
TooFewFields(line) == Len(line) < 13
NotANumber(line) ==
    /\ Len(line) >= 13
    /\ \/ \E f \in IntegerFields : ~Blank(line[f]) /\ ~IsInteger(line[f])
       \/ \E f \in DecimalFields : ~Blank(line[f]) /\ ~IsDecimal(line[f])
BadLine(line) == EmptyLine(line) \/ TooFewFields(line) \/ NotANumber(line)
WellFormed(line) ==
    /\ Len(line) >= 13
    /\ \A f \in IntegerFields : IsInteger(line[f])
    /\ \A f \in DecimalFields : IsDecimal(line[f])
Filtered(line) == strip(line[7])[1] = "[" \/ int_val(line[1]) = 0
Kept(line) == WellFormed(line) /\ strip(line[7]) # <<>> /\ ~Filtered(line)

\* the output without the lines that are empty, short or not numeric
RECURSIVE WithoutBad(_)
WithoutBad(lines) ==
    IF lines = <<>> THEN <<>>
    ELSE (IF BadLine(Head(lines)) THEN <<>> ELSE <<Head(lines)>>) \o WithoutBad(Tail(lines))

\* the process ids of the well-formed lines that are not filtered, in their order
RECURSIVE KeptPids(_)
KeptPids(lines) ==
    IF lines = <<>> THEN <<>>
    ELSE (IF Kept(Head(lines)) THEN <<int_val(Head(lines)[1])>> ELSE <<>>)
         \o KeptPids(Tail(lines))

\* C15: a bad line never aborts the scrape: the lines that are empty, too short or
\* not numeric are skipped, the result is what the output without them gives, and
\* every well-formed line that is not filtered yields its record.
C15_BadLinesSkipped ==
    fx.stage = "parsed" =>
      /\ \E clean \in {collect_data("ok", WithoutBad(fx.stdout), <<>>, fx.env)} :
           /\ fx.raised = clean.raised
           /\ fx.appended = clean.appended
           /\ fx.processes = clean.processes
      /\ ~fx.raised =>
           [i \in 1..Len(fx.appended) |-> fx.appended[i].pid] = KeptPids(fx.stdout)

C15_Witness ==
    /\ fx.stage = "parsed"
    /\ fx.stdout = <<LineX, LineA, LineN>>
    /\ ~fx.raised
    /\ Len(fx.processes) = 1 /\ fx.processes[1].pid = 1

\* C16: every ranked list of aggregate_top has at most N entries, at most as many
\* as the records it was given, and holds each record at most once.
C16_ListsBounded ==
    fx.stage = "parsed" =>
      \A t \in {fx.tops, fx.all} :
        \A d \in {"memory", "cpu", "disk_read", "disk_write", "combined"} :
           /\ Len(t[d]) <= TOP_N
           /\ Len(t[d]) <= Len(t.processes)
           /\ \A i \in 1..Len(t[d]) : t[d][i] \in 1..Len(t.processes)
           /\ \A i, j \in 1..Len(t[d]) : i # j => t[d][i] # t[d][j]

C16_Witness ==
    /\ fx.stage = "parsed"
    /\ Len(fx.all.processes) > TOP_N
    /\ Len(fx.all.cpu) = TOP_N
    /\ Len(fx.all.disk_write) = TOP_N

\* the place of a record of a ranked list among the records as they were collected
CollectedAt(r) ==
    MinOf({k \in 1..Len(fx.appended) : fx.appended[k] = [r EXCEPT !.rank = 0]})

\* C18: in every rendered list, two records with equal keys of that dimension stand
\* in the order in which their lines were collected.
C18_StableOrder ==
    fx.stage = "parsed" =>
      \A d \in {"memory", "cpu", "disk_read", "disk_write"} :
        \A i, j \in 1..Len(fx.tops[d]) :
           (/\ i < j
            /\ key_func(d, fx.tops.processes[fx.tops[d][i]])
                 = key_func(d, fx.tops.processes[fx.tops[d][j]]))
           => CollectedAt(fx.tops.processes[fx.tops[d][i]])
                <= CollectedAt(fx.tops.processes[fx.tops[d][j]])

\* the fields the format calls numeric, with the attribute each one sets
NumericAttr ==
    (3 :> "cpu_pct") @@ (4 :> "mem_pct") @@ (5 :> "mem_rss_kb") @@ (6 :> "uptime_sec")
    @@ (8 :> "disk_read_bytes") @@ (9 :> "disk_write_bytes")

\* a line that is well-formed but for numeric fields that are present and empty
EmptyNumeric(line) ==
    /\ Len(line) >= 13
    /\ IsInteger(line[1])
    /\ \A f \in DOMAIN NumericAttr :
         Blank(line[f]) \/ (IF f \in DecimalFields THEN IsDecimal(line[f])
                            ELSE IsInteger(line[f]))
    /\ \E f \in DOMAIN NumericAttr : Blank(line[f])
    /\ strip(line[7]) # <<>> /\ ~Filtered(line)

\* C19: a numeric field that is present but empty defaults to zero: the line still
\* yields a record, with 0 in that field.
C19_EmptyIsZero ==
    (fx.stage = "parsed" /\ ~fx.raised) =>
      \A i \in 1..Len(fx.stdout) :
         EmptyNumeric(fx.stdout[i]) =>
           \E k \in 1..Len(fx.appended) :
              /\ fx.appended[k].pid = int_val(fx.stdout[i][1])
              /\ \A f \in DOMAIN NumericAttr :
                   Blank(fx.stdout[i][f]) => fx.appended[k][NumericAttr[f]] = 0

\* C17: over any sequence of /metrics requests, no 200 response exposes a partly
\* updated registry: one in which only some of the entries of a scrape's ranked lists
\* were set after the gauges had been cleared.
C17_NoPartialView == Answered200 => ~last.partial

(***************************************************************************)
(* The lru_cache of resolve_container_metadata on its own: a sequence of   *)
(* calls on one cache, with the host's answers chosen per call.            *)
(***************************************************************************)
\* the container ids and runtimes of the calls
CacheIds == {<<>>, <<"w", "e", "b">>}
CacheRuntimes == {T_host, T_docker, T_podman, T_lxc}
CacheEnvs == {[docker |-> "found", podman |-> "ok"],
              [docker |-> "nomatch", podman |-> "missing"]}

InitCache ==
    /\ pc = "starting" /\ shutdown_flag = FALSE
    /\ _INCLUDE_LABELS_SET = normalize_labels(DefaultLabels)
    /\ gauges = [m \in ALL_METRICS |-> {}]
    /\ PROCESSES_TOTAL = <<>> /\ SCRAPE_ERRORS = 0 /\ SCRAPE_DURATION = 0
    /\ cache = <<>> /\ lookups = <<>> /\ keys_seen = {} /\ last = NoLast
    /\ fx = [stage |-> "cache", cache |-> <<>>]

\* metadata = resolve_container_metadata(container_id, runtime)
Resolve ==
    /\ fx.stage \in {"cache", "resolved"}
    /\ \E container_id \in CacheIds, runtime \in CacheRuntimes, env \in CacheEnvs :
         \E r \in {resolve_container_metadata(fx.cache, container_id, runtime, env)} :
            fx' = [stage |-> "resolved", before |-> fx.cache, cache |-> r.cache,
                   container_id |-> container_id, runtime |-> runtime,
                   raised |-> r.raised, value |-> r.value]
    /\ UNCHANGED <<pc, shutdown_flag, _INCLUDE_LABELS_SET, registry>>

NextCache == Resolve

SpecCache == InitCache /\ [][NextCache]_vars

\* the call took the short-circuit of the body: empty container id or runtime host
ShortCircuited == fx.container_id = <<>> \/ fx.runtime = T_host

\* C21: a call of resolve_container_metadata with runtime host or with an empty
\* container id returns the all-empty result and leaves the cache as it was: no
\* entry added, none evicted, the recency order of the entries unchanged.
C21_ShortCircuitLeavesCache ==
    (fx.stage = "resolved" /\ ShortCircuited) =>
       /\ ~fx.raised
       /\ fx.value = [container_name |-> <<>>, pod_name |-> <<>>, namespace |-> <<>>]
       /\ fx.cache = fx.before

====
